---- MODULE Spec2Model ----
(***************************************************************************)
(* routingpy: the router dispatch table (routers/__init__.py), the ISO     *)
(* 8601 duration formatter (convert.py) and the OpenTripPlannerV2 adapter  *)
(* (routers/opentripplanner_v2.py) as state machines.                      *)
(*                                                                         *)
(* Python strings whose characters matter (router names, ISO durations)    *)
(* are sequences of one-character strings.  Python objects are records     *)
(* with a "type" field; None is the record [type |-> "NoneType"].          *)
(***************************************************************************)
EXTENDS Integers, Sequences, FiniteSets, TLC

VARIABLES
    pc,              \* position of the current call
    method,          \* the adapter method being executed
    args,            \* the arguments of the current call
    requests,        \* the keyword arguments of every client._request call made
    response,        \* what client._request returned
    result,          \* the value the call returned
    exc,             \* the exception the call raised, "none" if none
    response_reads,  \* the keys subscripted on the response while parsing
    router_name,     \* argument of get_router_by_name
    router_out,      \* outcome of get_router_by_name
    seconds,         \* argument of seconds_to_iso8601
    iso              \* result of seconds_to_iso8601

vars == <<pc, method, args, requests, response, result, exc, response_reads,
          router_name, router_out, seconds, iso>>

None == [type |-> "NoneType"]
Unset == [type |-> "unset"]

(***************************************************************************)
(* Bounds of the model.                                                    *)
(***************************************************************************)
MaxUpper == 3
MaxSeconds == 90065
MaxItineraries == 3
MaxLegs == 2
MaxNumItineraries == 3

(***************************************************************************)
(* str.lower() / str.upper() on the characters router names are made of.   *)
(***************************************************************************)
LowerChars == <<"a","b","c","d","e","f","g","h","i","j","k","l","m",
                "n","o","p","q","r","s","t","u","v","w","x","y","z">>
UpperChars == <<"A","B","C","D","E","F","G","H","I","J","K","L","M",
                "N","O","P","Q","R","S","T","U","V","W","X","Y","Z">>

char_lower(c) ==
    IF \E i \in DOMAIN UpperChars : UpperChars[i] = c
    THEN LowerChars[CHOOSE i \in DOMAIN UpperChars : UpperChars[i] = c]
    ELSE c

char_upper(c) ==
    IF \E i \in DOMAIN LowerChars : LowerChars[i] = c
    THEN UpperChars[CHOOSE i \in DOMAIN LowerChars : LowerChars[i] = c]
    ELSE c

lower(s) == [i \in DOMAIN s |-> char_lower(s[i])]

(***************************************************************************)
(* routers/__init__.py                                                     *)
(***************************************************************************)
_SERVICE_TO_ROUTER ==
    << [key |-> <<"o","r","s">>, router |-> "ORS"],
       [key |-> <<"o","p","e","n","r","o","u","t","e","s","e","r","v","i","c","e">>,
        router |-> "ORS"],
       [key |-> <<"o","s","r","m">>, router |-> "OSRM"],
       [key |-> <<"m","a","p","b","o","x","_","o","s","r","m">>, router |-> "MapboxOSRM"],
       [key |-> <<"m","a","p","b","o","x","-","o","s","r","m">>, router |-> "MapboxOSRM"],
       [key |-> <<"m","a","p","b","o","x","o","s","r","m">>, router |-> "MapboxOSRM"],
       [key |-> <<"m","a","p","b","o","x">>, router |-> "MapboxOSRM"],
       [key |-> <<"v","a","l","h","a","l","l","a">>, router |-> "Valhalla"],
       [key |-> <<"m","a","p","b","o","x","_","v","a","l","h","a","l","l","a">>,
        router |-> "MapboxValhalla"],
       [key |-> <<"m","a","p","b","o","x","-","v","a","l","h","a","l","l","a">>,
        router |-> "MapboxValhalla"],
       [key |-> <<"m","a","p","b","o","x","v","a","l","h","a","l","l","a">>,
        router |-> "MapboxValhalla"],
       [key |-> <<"g","r","a","p","h","h","o","p","p","e","r">>, router |-> "Graphhopper"],
       [key |-> <<"g","o","o","g","l","e">>, router |-> "Google"],
       [key |-> <<"h","e","r","e">>, router |-> "HereMaps"],
       [key |-> <<"h","e","r","e","m","a","p","s">>, router |-> "HereMaps"] >>

\* dict.keys()
keys(table) == {table[i].key : i \in DOMAIN table}

\* dict.__getitem__: the value stored under k, KeyError when k is no key
getitem(table, k) ==
    IF k \in keys(table)
    THEN [exc |-> "none",
          value |-> table[CHOOSE i \in DOMAIN table : table[i].key = k].router]
    ELSE [exc |-> "KeyError", value |-> "NoValue"]

\* as get_router_by_name, with dict.get in place of the subscript: no KeyError
get_router_by_name_dictget(name) ==
    LET got == getitem(_SERVICE_TO_ROUTER, lower(name))
    IN  [exc |-> "none", ret |-> got.value]

\* as get_router_by_name, without the .lower()
get_router_by_name_nolower(name) ==
    LET got == getitem(_SERVICE_TO_ROUTER, name)
    IN  IF got.exc = "KeyError"
        THEN [exc |-> "RouterNotFound", ret |-> "NoValue"]
        ELSE [exc |-> "none", ret |-> got.value]

get_router_by_name(name) ==
    LET got == getitem(_SERVICE_TO_ROUTER, lower(name))
    IN  IF got.exc = "KeyError"
        THEN [exc |-> "RouterNotFound", ret |-> "NoValue"]
        ELSE [exc |-> "none", ret |-> got.value]

(***************************************************************************)
(* Router names given to get_router_by_name: every registered name with up *)
(* to MaxUpper of its characters upper-cased, and names that are not       *)
(* registered (prefixes of registered names, other providers, padding).    *)
(***************************************************************************)
Uppercased(k, S) == [i \in DOMAIN k |-> IF i \in S THEN char_upper(k[i]) ELSE k[i]]

CaseVariants(k) ==
    {Uppercased(k, S) : S \in {T \in SUBSET (DOMAIN k) : Cardinality(T) <= MaxUpper}}
    \cup {Uppercased(k, DOMAIN k)}

Prefixes(k) == {SubSeq(k, 1, n) : n \in 0..Len(k)}

OtherNames ==
    { <<"o","t","p">>, <<"b","i","n","g">>, <<"B","I","N","G","M","A","P","S">>,
      <<"o","r","s"," ">>, <<" ","o","r","s">>, <<"O","R","S","_">>,
      <<"m","a","p","b","o","x"," ","o","s","r","m">>,
      <<"h","e","r","e","_","m","a","p","s">>,
      <<"o","p","e","n","t","r","i","p","p","l","a","n","n","e","r">> }

RouterNames ==
    UNION {CaseVariants(k) : k \in keys(_SERVICE_TO_ROUTER)}
    \cup UNION {Prefixes(k) : k \in keys(_SERVICE_TO_ROUTER)}
    \cup OtherNames

NoRouterOut == [exc |-> "none", ret |-> "NoValue"]

(***************************************************************************)
(* convert.py                                                              *)
(***************************************************************************)
SecondsPerDay == 86400

\* datetime.timedelta(seconds=n).seconds for an integer n: the seconds within
\* the day, the whole days being kept in the separate attribute .days
timedelta_seconds(n) == n % SecondsPerDay

Digits == <<"0","1","2","3","4","5","6","7","8","9">>

\* f"{n}" for a non-negative integer n
RECURSIVE format_int(_)
format_int(n) ==
    IF n < 10 THEN <<Digits[n + 1]>>
    ELSE format_int(n \div 10) \o <<Digits[(n % 10) + 1]>>

seconds_to_iso8601(secs) ==
    LET duration_seconds == timedelta_seconds(secs)
        hours == duration_seconds \div 3600
        minutes == (duration_seconds \div 60) % 60
        s == duration_seconds % 60
        d0 == <<"P","T">>
        d1 == IF hours # 0 THEN d0 \o format_int(hours) \o <<"H">> ELSE d0
        d2 == IF minutes # 0 THEN d1 \o format_int(minutes) \o <<"M">> ELSE d1
        d3 == IF s # 0 \/ ~(hours # 0 \/ minutes # 0)
              THEN d2 \o format_int(s) \o <<"S">> ELSE d2
    IN  d3

(***************************************************************************)
(* routers/opentripplanner_v2.py                                           *)
(*                                                                         *)
(* A datetime is [type |-> "datetime", date, time]; bool(datetime) is      *)
(* always True, bool(None) is False.                                       *)
(***************************************************************************)
truthy(x) == x.type # "NoneType"

\* datetime.isoformat()
isoformat(dt) == dt.date \o "T" \o dt.time

RECURSIVE Reverse(_)
Reverse(s) == IF s = <<>> THEN <<>> ELSE Reverse(Tail(s)) \o <<Head(s)>>

\* convert.delimit_list: delimiter.join(map(str, arg))
RECURSIVE delimit_list(_, _)
delimit_list(arg, delimiter) ==
    IF arg = <<>> THEN ""
    ELSE IF Len(arg) = 1 THEN ToString(arg[1])
    ELSE ToString(arg[1]) \o delimiter \o delimit_list(Tail(arg), delimiter)

\* the keyword arguments directions gives client._request
directions_request(locations, profile, date_time, arrival_time, num_itineraries, dry_run) ==
    LET transport_modes == [i \in DOMAIN profile |-> [mode |-> profile[i]]]
        query == [date |-> date_time.date,
                  time |-> date_time.time,
                  from |-> [lat |-> locations[1][2], lon |-> locations[1][1]],
                  to |-> [lat |-> locations[2][2], lon |-> locations[2][1]],
                  transportModes |-> transport_modes,
                  numItineraries |-> num_itineraries,
                  arriveBy |-> IF date_time = arrival_time THEN "true" ELSE "false"]
    IN  [path |-> "/otp/routers/default/index/graphql",
         post_params |-> [query |-> query],
         dry_run |-> dry_run]

\* as directions, without the check that rejects both times given together
directions_bothtimes(locations, profile, departure_time, arrival_time, num_itineraries, dry_run) ==
    IF truthy(arrival_time)
    THEN [exc |-> "none",
          calls |-> <<directions_request(locations, profile, arrival_time,
                                         arrival_time, num_itineraries, dry_run)>>]
    ELSE IF truthy(departure_time)
    THEN [exc |-> "none",
          calls |-> <<directions_request(locations, profile, departure_time,
                                         arrival_time, num_itineraries, dry_run)>>]
    ELSE [exc |-> "ValueError", calls |-> <<>>]

\* directions, up to and including the call of client._request.  profile is the
\* list profile.strip().split(",") yields.
directions(locations, profile, departure_time, arrival_time, num_itineraries, dry_run) ==
    IF truthy(arrival_time) /\ truthy(departure_time)
    THEN [exc |-> "ValueError", calls |-> <<>>]
    ELSE IF truthy(arrival_time)
    THEN [exc |-> "none",
          calls |-> <<directions_request(locations, profile, arrival_time,
                                         arrival_time, num_itineraries, dry_run)>>]
    ELSE IF truthy(departure_time)
    THEN [exc |-> "none",
          calls |-> <<directions_request(locations, profile, departure_time,
                                         arrival_time, num_itineraries, dry_run)>>]
    ELSE [exc |-> "ValueError", calls |-> <<>>]

\* _parse_legs: the summed distance and the concatenated reversed points
RECURSIVE _parse_legs(_)
_parse_legs(legs) ==
    IF legs = <<>> THEN [distance |-> 0, geometry |-> <<>>]
    ELSE LET rest == _parse_legs(Tail(legs))
         IN  [distance |-> Head(legs).distance + rest.distance,
              geometry |-> Reverse(Head(legs).legGeometry.points) \o rest.geometry]

\* Direction() and Directions() built with no argument carry no field.
EmptyObject(t) == [type |-> t]

\* The Direction built from one itinerary.  departure_datetime and
\* arrival_datetime (pytz and timezonefinder lookups on the first and last
\* point) are left out; the subscripts geometry[0] and geometry[-1] they make
\* are RaisesIndexError.
Direction(itinerary) ==
    LET parsed == _parse_legs(itinerary.legs)
    IN  [type |-> "Direction",
         geometry |-> parsed.geometry,
         duration |-> itinerary.duration,
         distance |-> parsed.distance,
         raw |-> itinerary]

\* geometry[0][0] and geometry[-1][0] raise IndexError on an empty geometry
RaisesIndexError(itinerary) == _parse_legs(itinerary.legs).geometry = <<>>

parse_directions_response(resp, num_itineraries) ==
    IF resp.type = "NoneType"
    THEN [exc |-> "none",
          result |-> IF num_itineraries > 1
                     THEN EmptyObject("Directions") ELSE EmptyObject("Direction"),
          reads |-> {}]
    ELSE LET itineraries == resp.data.plan.itineraries
             dirs == [i \in DOMAIN itineraries |-> Direction(itineraries[i])]
         IN  IF \E i \in DOMAIN itineraries : RaisesIndexError(itineraries[i])
             THEN [exc |-> "IndexError", result |-> Unset, reads |-> {"data"}]
             ELSE IF num_itineraries > 1
             THEN [exc |-> "none",
                   result |-> [type |-> "Directions", directions |-> dirs, raw |-> resp],
                   reads |-> {"data"}]
             ELSE IF dirs # <<>>
             THEN [exc |-> "none", result |-> dirs[1], reads |-> {"data"}]
             ELSE [exc |-> "none", result |-> None, reads |-> {"data"}]

RECURSIVE CutoffParams(_)
CutoffParams(intervals) ==
    IF intervals = <<>> THEN <<>>
    ELSE << <<"cutoff", seconds_to_iso8601(Head(intervals))>> >>
         \o CutoffParams(Tail(intervals))

\* the keyword arguments isochrones gives client._request
isochrones_request(locations, profile, intervals, departure_time, dry_run) ==
    [path |-> "/otp/traveltime/isochrone",
     get_params |-> << <<"location", delimit_list(Reverse(locations), ",")>>,
                       <<"time", isoformat(departure_time)>>,
                       <<"modes", profile>> >>
                    \o CutoffParams(intervals),
     dry_run |-> dry_run]

\* as isochrones, without the check that rejects arrival_time
isochrones_arrivalok(locations, profile, intervals, interval_type, departure_time, arrival_time, dry_run) ==
    IF ~truthy(departure_time)
    THEN [exc |-> "ValueError", calls |-> <<>>]
    ELSE [exc |-> "none",
          calls |-> <<isochrones_request(locations, profile, intervals,
                                         departure_time, dry_run)>>]

\* isochrones, up to and including the call of client._request
isochrones(locations, profile, intervals, interval_type, departure_time, arrival_time, dry_run) ==
    IF truthy(arrival_time)
    THEN [exc |-> "ValueError", calls |-> <<>>]
    ELSE IF ~truthy(departure_time)
    THEN [exc |-> "ValueError", calls |-> <<>>]
    ELSE [exc |-> "none",
          calls |-> <<isochrones_request(locations, profile, intervals,
                                         departure_time, dry_run)>>]

Isochrone(feature) ==
    [type |-> "Isochrone",
     geometry |-> feature.geometry.coordinates[1],
     interval |-> feature.properties.time,
     interval_type |-> "time"]

\* as parse_isochrones_response, without the check for a None response:
\* None["features"] raises TypeError
parse_isochrones_response_nonecheck(resp) ==
    IF resp.type = "NoneType"
    THEN [exc |-> "TypeError", result |-> Unset, reads |-> {"features"}]
    ELSE [exc |-> "none",
          result |-> [type |-> "Isochrones",
                      isochrones |-> [i \in DOMAIN resp.features |->
                                          Isochrone(resp.features[i])],
                      raw |-> resp],
          reads |-> {"features"}]

parse_isochrones_response(resp) ==
    IF resp.type = "NoneType"
    THEN [exc |-> "none", result |-> EmptyObject("Isochrones"), reads |-> {}]
    ELSE [exc |-> "none",
          result |-> [type |-> "Isochrones",
                      isochrones |-> [i \in DOMAIN resp.features |->
                                          Isochrone(resp.features[i])],
                      raw |-> resp],
          reads |-> {"features"}]

\* raster, up to and including the call of client._request.  With neither time
\* given date_time is None and date_time.isoformat() raises AttributeError.
raster(locations, profile, departure_time, arrival_time, cutoff, dry_run) ==
    LET date_time == IF truthy(arrival_time) THEN arrival_time ELSE departure_time
    IN  IF ~truthy(date_time)
        THEN [exc |-> "AttributeError", calls |-> <<>>]
        ELSE [exc |-> "none",
              calls |-> << [path |-> "/otp/traveltime/surface",
                            get_params |->
                                << <<"location", delimit_list(Reverse(locations), ",")>>,
                                   <<"time", isoformat(date_time)>>,
                                   <<"modes", profile>>,
                                   <<"cutoff", seconds_to_iso8601(cutoff)>> >>,
                            dry_run |-> dry_run] >>]

parse_rasters_response(resp, max_travel_time) ==
    IF resp.type = "NoneType"
    THEN [exc |-> "none", result |-> EmptyObject("Raster"), reads |-> {}]
    ELSE [exc |-> "none",
          result |-> [type |-> "Raster", image |-> resp,
                      max_travel_time |-> max_travel_time],
          reads |-> {}]

(***************************************************************************)
(* Specification of get_router_by_name alone.                              *)
(***************************************************************************)
AdapterIdle ==
    /\ method = "none"
    /\ args = None
    /\ requests = <<>>
    /\ response = Unset
    /\ result = Unset
    /\ exc = "none"
    /\ response_reads = {}

InitRouter ==
    /\ pc = "call"
    /\ AdapterIdle
    /\ router_name \in RouterNames
    /\ router_out = NoRouterOut
    /\ seconds = 0
    /\ iso = <<>>

GetRouterByName ==
    /\ pc = "call"
    /\ router_out' = get_router_by_name(router_name)
    /\ pc' = "done"
    /\ UNCHANGED <<method, args, requests, response, result, exc, response_reads,
                   router_name, seconds, iso>>

NextRouter == GetRouterByName

SpecRouter == InitRouter /\ [][NextRouter]_vars

(***************************************************************************)
(* Specification of seconds_to_iso8601 alone.                              *)
(***************************************************************************)
InitIso ==
    /\ pc = "call"
    /\ AdapterIdle
    /\ router_name = <<>>
    /\ router_out = NoRouterOut
    /\ seconds \in 0..MaxSeconds
    /\ iso = <<>>

SecondsToIso8601 ==
    /\ pc = "call"
    /\ iso' = seconds_to_iso8601(seconds)
    /\ pc' = "done"
    /\ UNCHANGED <<method, args, requests, response, result, exc, response_reads,
                   router_name, router_out, seconds>>

NextIso == SecondsToIso8601

SpecIso == InitIso /\ [][NextIso]_vars

(***************************************************************************)
(* Arguments and client responses the adapter is exercised with.           *)
(***************************************************************************)
DateTimes == {[type |-> "datetime", date |-> "2024-05-01", time |-> "08:30:00"]}

\* departure_time / arrival_time: Optional[datetime.datetime]
OptionalTimes == {None} \cup DateTimes

\* profile, as the list of its comma-separated modes
Profiles == {<<"WALK">>, <<"WALK", "TRANSIT">>}

\* [lon, lat]
Origin == <<8, 47>>
Destination == <<13, 52>>

NumItineraries == (-1)..MaxNumItineraries

IntervalLists == {<<600>>, <<600, 3665>>, <<90000>>}

Cutoffs == {0, 3600, 3665}

\* A leg of an itinerary; points is the list utils.decode_polyline5 decodes
\* legGeometry.points to.
Leg(i) == [distance |-> 100 * i,
           legGeometry |-> [points |-> <<2 * i - 1, 2 * i>>]]

LegWithoutPoints == [distance |-> 0, legGeometry |-> [points |-> <<>>]]

LegLists ==
    {[i \in 1..n |-> Leg(i)] : n \in 0..MaxLegs} \cup {<<LegWithoutPoints>>}

Itineraries ==
    {[duration |-> 600 * (Len(legs) + 1), startTime |-> 1714545000,
      endTime |-> 1714545000 + 600 * (Len(legs) + 1), legs |-> legs] : legs \in LegLists}

DirectionsResponses ==
    {[type |-> "dict", data |-> [plan |-> [itineraries |-> its]]] :
        its \in UNION {[1..n -> Itineraries] : n \in 0..MaxItineraries}}

Feature(t) == [geometry |-> [coordinates |-> << <<Origin, Destination, Origin>> >>],
               properties |-> [time |-> t]]

IsochronesResponses ==
    {[type |-> "dict", features |-> fs] :
        fs \in {<<>>, <<Feature(600)>>, <<Feature(600), Feature(3665)>>}}

RasterResponses == {[type |-> "bytes", content |-> "GeoTIFF"]}

\* client._request(path, get_params, post_params, dry_run) -> response | None
ClientResponses(m) ==
    {None} \cup (CASE m = "directions" -> DirectionsResponses
                   [] m = "isochrones" -> IsochronesResponses
                   [] m = "raster" -> RasterResponses)

(***************************************************************************)
(* Specification of the OpenTripPlannerV2 adapter: a call validates its    *)
(* arguments and issues client._request, the client returns, the response  *)
(* is parsed and the call returns.                                         *)
(***************************************************************************)
Init ==
    /\ pc = "idle"
    /\ AdapterIdle
    /\ router_name = <<>>
    /\ router_out = NoRouterOut
    /\ seconds = 0
    /\ iso = <<>>

Others == <<router_name, router_out, seconds, iso>>

\* the state after the part of a method that precedes the client's answer
Called(m, a, out) ==
    /\ method' = m
    /\ args' = a
    /\ requests' = requests \o out.calls
    /\ exc' = out.exc
    /\ pc' = IF out.exc = "none" THEN "requesting" ELSE "done"
    /\ UNCHANGED <<response, result, response_reads, Others>>

Directions ==
    /\ pc = "idle"
    /\ \E profile \in Profiles, departure_time \in OptionalTimes,
          arrival_time \in OptionalTimes, num_itineraries \in NumItineraries,
          dry_run \in BOOLEAN :
            Called("directions",
                   [locations |-> <<Origin, Destination>>, profile |-> profile,
                    departure_time |-> departure_time, arrival_time |-> arrival_time,
                    num_itineraries |-> num_itineraries, dry_run |-> dry_run],
                   directions(<<Origin, Destination>>, profile, departure_time,
                              arrival_time, num_itineraries, dry_run))

Isochrones ==
    /\ pc = "idle"
    /\ \E profile \in Profiles, intervals \in IntervalLists,
          departure_time \in OptionalTimes, arrival_time \in OptionalTimes,
          dry_run \in BOOLEAN :
            Called("isochrones",
                   [locations |-> Origin, profile |-> profile, intervals |-> intervals,
                    departure_time |-> departure_time, arrival_time |-> arrival_time,
                    dry_run |-> dry_run],
                   isochrones(Origin, profile, intervals, None, departure_time,
                              arrival_time, dry_run))

Raster ==
    /\ pc = "idle"
    /\ \E profile \in Profiles, departure_time \in OptionalTimes,
          arrival_time \in OptionalTimes, cutoff \in Cutoffs, dry_run \in BOOLEAN :
            Called("raster",
                   [locations |-> Origin, profile |-> profile,
                    departure_time |-> departure_time, arrival_time |-> arrival_time,
                    cutoff |-> cutoff, dry_run |-> dry_run],
                   raster(Origin, profile, departure_time, arrival_time, cutoff, dry_run))

\* matrix raises NotImplementedError
Matrix ==
    /\ pc = "idle"
    /\ Called("matrix", None, [exc |-> "NotImplementedError", calls |-> <<>>])

\* client._request returns
ClientRequest ==
    /\ pc = "requesting"
    /\ response' \in ClientResponses(method)
    /\ pc' = "parsing"
    /\ UNCHANGED <<method, args, requests, result, exc, response_reads, Others>>

Parsed(out) ==
    /\ result' = out.result
    /\ exc' = out.exc
    /\ response_reads' = out.reads
    /\ pc' = "done"
    /\ UNCHANGED <<method, args, requests, response, Others>>

ParseDirectionsResponse ==
    /\ pc = "parsing"
    /\ method = "directions"
    /\ Parsed(parse_directions_response(response, args.num_itineraries))

ParseIsochronesResponse ==
    /\ pc = "parsing"
    /\ method = "isochrones"
    /\ Parsed(parse_isochrones_response(response))

ParseRastersResponse ==
    /\ pc = "parsing"
    /\ method = "raster"
    /\ Parsed(parse_rasters_response(response, args.cutoff))

\* the call is over; the router object takes the next call
Return ==
    /\ pc = "done"
    /\ pc' = "idle"
    /\ method' = "none"
    /\ args' = None
    /\ requests' = <<>>
    /\ response' = Unset
    /\ result' = Unset
    /\ exc' = "none"
    /\ response_reads' = {}
    /\ UNCHANGED Others

Next ==
    \/ Directions
    \/ Isochrones
    \/ Raster
    \/ Matrix
    \/ ClientRequest
    \/ ParseDirectionsResponse
    \/ ParseIsochronesResponse
    \/ ParseRastersResponse
    \/ Return

Spec == Init /\ [][Next]_vars

(***************************************************************************)
(* Properties.                                                             *)
(***************************************************************************)
RouterClasses ==
    {"ORS", "OSRM", "Valhalla", "Graphhopper", "MapboxValhalla", "MapboxOSRM",
     "Google", "HereMaps"}

\* name is key with some of its characters upper-cased
IsCaseVariant(name, key) ==
    /\ Len(name) = Len(key)
    /\ \A i \in DOMAIN key : name[i] = key[i] \/ name[i] = char_upper(key[i])

SynonymGroups ==
    { { <<"o","r","s">>,
        <<"o","p","e","n","r","o","u","t","e","s","e","r","v","i","c","e">> },
      { <<"h","e","r","e">>, <<"h","e","r","e","m","a","p","s">> },
      { <<"m","a","p","b","o","x">>,
        <<"m","a","p","b","o","x","_","o","s","r","m">>,
        <<"m","a","p","b","o","x","-","o","s","r","m">>,
        <<"m","a","p","b","o","x","o","s","r","m">> },
      { <<"m","a","p","b","o","x","_","v","a","l","h","a","l","l","a">>,
        <<"m","a","p","b","o","x","-","v","a","l","h","a","l","l","a">>,
        <<"m","a","p","b","o","x","v","a","l","h","a","l","l","a">> } }

\* C1: get_router_by_name raises RouterNotFound and returns no class for every
\* name whose lower-cased form is no key of the dispatch table, and returns a
\* router class without raising for every other name; nothing else happens.
C1_RouterNotFoundOrClass ==
    pc = "done" =>
        IF lower(router_name) \in keys(_SERVICE_TO_ROUTER)
        THEN router_out.exc = "none" /\ router_out.ret \in RouterClasses
        ELSE router_out.exc = "RouterNotFound" /\ router_out.ret = "NoValue"

C1_Witness ==
    /\ pc = "done"
    /\ router_name = <<"B","I","N","G","M","A","P","S">>
    /\ router_out.exc = "RouterNotFound"

\* C2: every upper/lower-case variant of a registered name yields the class of
\* the registered lower-case name, and all synonyms of one provider yield one
\* and the same class.
C2_CaseInsensitiveSynonyms ==
    pc = "done" =>
        \A key \in keys(_SERVICE_TO_ROUTER) :
            IsCaseVariant(router_name, key) =>
                /\ router_out.exc = "none"
                /\ router_out.ret \in RouterClasses
                /\ router_out.ret = get_router_by_name(key).ret
                /\ \A group \in SynonymGroups :
                       key \in group =>
                           \A synonym \in group :
                               /\ get_router_by_name(synonym).exc = "none"
                               /\ get_router_by_name(synonym).ret = router_out.ret

C2_Witness ==
    /\ pc = "done"
    /\ router_name = <<"H","e","r","e","M","a","p","s">>
    /\ router_out.ret = "HereMaps"

Given(t) == t \in DateTimes

\* C3: a directions call given both departure_time and arrival_time, or
\* neither, raises ValueError without any client._request call; a call given
\* exactly one of them issues the request.
C3_DirectionsTimesExclusive ==
    (method = "directions" /\ pc # "idle") =>
        IF Given(args.departure_time) = Given(args.arrival_time)
        THEN pc = "done" /\ exc = "ValueError" /\ requests = <<>>
        ELSE /\ exc # "ValueError"
             /\ Len(requests) = 1
             /\ requests[1].path = "/otp/routers/default/index/graphql"

C3_Witness ==
    /\ method = "directions"
    /\ pc = "done"
    /\ Given(args.departure_time)
    /\ Given(args.arrival_time)
    /\ exc = "ValueError"
    /\ requests = <<>>

\* C4: an isochrones call given arrival_time (with or without departure_time),
\* or given neither time, raises ValueError without any client._request call;
\* only a call given departure_time and no arrival_time issues a request.
C4_IsochronesDepartureOnly ==
    (method = "isochrones" /\ pc # "idle") =>
        IF Given(args.arrival_time) \/ ~Given(args.departure_time)
        THEN pc = "done" /\ exc = "ValueError" /\ requests = <<>>
        ELSE /\ exc # "ValueError"
             /\ Len(requests) = 1
             /\ requests[1].path = "/otp/traveltime/isochrone"

C4_Witness ==
    /\ method = "isochrones"
    /\ pc = "done"
    /\ Given(args.departure_time)
    /\ Given(args.arrival_time)
    /\ exc = "ValueError"
    /\ requests = <<>>

\* C5: a raster call given both departure_time and arrival_time, or neither,
\* is rejected with ValueError and issues no request to the client.
C5_RasterTimesExclusive ==
    (method = "raster" /\ pc # "idle"
        /\ Given(args.departure_time) = Given(args.arrival_time)) =>
            pc = "done" /\ exc = "ValueError" /\ requests = <<>>

\* C6: whatever num_itineraries and the client's response are, what directions
\* returns is a Direction or a Directions, never None or anything else.
C6_DirectionsReturnsDirection ==
    (method = "directions" /\ pc = "done" /\ exc = "none") =>
        result.type \in {"Direction", "Directions"}

\* the ISO 8601 components of a duration's characters from position i on, as
\* <<number, unit>> records; a character out of place yields the unit "?"
RECURSIVE IsoComponents(_, _, _, _)
IsoComponents(s, i, num, digits) ==
    IF i > Len(s)
    THEN IF digits > 0 THEN <<[n |-> num, unit |-> "?"]>> ELSE <<>>
    ELSE IF \E d \in DOMAIN Digits : Digits[d] = s[i]
    THEN IsoComponents(s, i + 1,
                       10 * num + (CHOOSE d \in DOMAIN Digits : Digits[d] = s[i]) - 1,
                       digits + 1)
    ELSE IF s[i] \in {"H", "M", "S"} /\ digits > 0
    THEN <<[n |-> num, unit |-> s[i]]>> \o IsoComponents(s, i + 1, 0, 0)
    ELSE <<[n |-> 0, unit |-> "?"]>>

UnitRank(u) == CASE u = "H" -> 1 [] u = "M" -> 2 [] u = "S" -> 3 [] OTHER -> 0

UnitSeconds(u) == CASE u = "H" -> 3600 [] u = "M" -> 60 [] u = "S" -> 1 [] OTHER -> 0

RECURSIVE IsoTotal(_)
IsoTotal(comps) ==
    IF comps = <<>> THEN 0
    ELSE Head(comps).n * UnitSeconds(Head(comps).unit) + IsoTotal(Tail(comps))

\* "PT", then at least one of <h>H, <m>M, <s>S in that order, m and s below 60,
\* no zero-valued component other than the whole duration "PT0S"
IsoWellFormed(s) ==
    /\ Len(s) > 2
    /\ s[1] = "P"
    /\ s[2] = "T"
    /\ LET comps == IsoComponents(s, 3, 0, 0)
       IN  /\ comps # <<>>
           /\ \A c \in DOMAIN comps : UnitRank(comps[c].unit) > 0
           /\ \A c \in DOMAIN comps : \A d \in DOMAIN comps :
                  c < d => UnitRank(comps[c].unit) < UnitRank(comps[d].unit)
           /\ \A c \in DOMAIN comps : comps[c].unit \in {"M", "S"} => comps[c].n < 60
           /\ \/ \A c \in DOMAIN comps : comps[c].n > 0
              \/ comps = <<[n |-> 0, unit |-> "S"]>>

\* C7: for every non-negative number of seconds, seconds_to_iso8601 yields a
\* well-formed ISO 8601 duration whose hours, minutes and seconds add up to
\* that number; 3665 gives PT1H1M5S and 0 gives PT0S.
C7_IsoDenotesSameDuration ==
    pc = "done" =>
        /\ IsoWellFormed(iso)
        /\ IsoTotal(IsoComponents(iso, 3, 0, 0)) = seconds
        /\ seconds = 3665 => iso = <<"P","T","1","H","1","M","5","S">>
        /\ seconds = 0 => iso = <<"P","T","0","S">>

\* the keyword arguments a method gives client._request
RequestShape(m) ==
    CASE m = "directions" -> {"path", "post_params", "dry_run"}
      [] m = "isochrones" -> {"path", "get_params", "dry_run"}
      [] m = "raster" -> {"path", "get_params", "dry_run"}
      [] OTHER -> {}

\* the call's time arguments are ones the method goes on with
PassesValidation ==
    CASE method = "directions" -> Given(args.departure_time) # Given(args.arrival_time)
      [] method = "isochrones" -> Given(args.departure_time) /\ ~Given(args.arrival_time)
      [] method = "raster" -> Given(args.departure_time) \/ Given(args.arrival_time)
      [] OTHER -> FALSE

\* the object a method returns for a dry run
EmptyResultType ==
    CASE method = "directions" ->
             IF args.num_itineraries > 1 THEN "Directions" ELSE "Direction"
      [] method = "isochrones" -> "Isochrones"
      [] method = "raster" -> "Raster"
      [] OTHER -> "none"

\* C8: a directions, isochrones or raster call that passes argument validation
\* calls client._request exactly once (directions with post_params only, the
\* other two with get_params only), parses only after the client has returned,
\* and for a None response returns an empty result object without reading any
\* field of the response.
C8_RequestResponseProtocol ==
    /\ Len(requests) <= 1
    /\ (pc # "idle" /\ PassesValidation) =>
           /\ Len(requests) = 1
           /\ DOMAIN requests[1] = RequestShape(method)
           /\ requests[1].dry_run = args.dry_run
    /\ response.type # "unset" => Len(requests) = 1
    /\ (result.type # "unset" \/ response_reads # {}) =>
           /\ response.type # "unset"
           /\ pc = "done"
    /\ (pc = "done" /\ PassesValidation) => response.type # "unset"
    /\ (pc = "done" /\ response.type = "NoneType") =>
           /\ exc = "none"
           /\ response_reads = {}
           /\ result = EmptyObject(EmptyResultType)

C8_Witness ==
    /\ pc = "done"
    /\ method = "isochrones"
    /\ response.type = "NoneType"
    /\ Len(requests) = 1
    /\ result.type = "Isochrones"

\* the number of routes a result of directions holds
RouteCount(r) ==
    CASE r.type = "Direction" -> 1
      [] r.type = "Directions" ->
             IF "directions" \in DOMAIN r THEN Len(r.directions) ELSE 0
      [] OTHER -> 0

\* C9: for every positive num_itineraries and every response, the result of
\* directions holds at most num_itineraries routes.
C9_AtMostNumItineraries ==
    (method = "directions" /\ pc = "done" /\ exc = "none"
        /\ args.num_itineraries >= 1) =>
            RouteCount(result) <= args.num_itineraries

====
